---- MODULE Spec2Model ----
(***************************************************************************)
(* Model of migrate_blogs.py: the resumable migration engine               *)
(* (BlogMigrator.migrate_all / migrate_single_file), the progress ledger   *)
(* (MigrationProgress) with its JSON file and temporary file, the Remote   *)
(* Store's insert and listing, and the process life cycle (invocation,     *)
(* exit status, KeyboardInterrupt, kill).                                  *)
(*                                                                         *)
(* Candidate files are the indices 0..N-1 of the sorted candidate list,    *)
(* which is the same on every invocation (unchanged tree).  last_updated   *)
(* (a wall-clock stamp) is left out of the state.  The quarantine          *)
(* directory is kept as the set of files copied into it and the set of     *)
(* files that have an entry in error_log.txt.                              *)
(***************************************************************************)
EXTENDS Integers, Sequences, FiniteSets, TLC

\* ------------------------------------------------------------------ bounds
MaxFiles == 2
MaxRuns == 2
MaxFaults == 1
HaltExtra == 1

\* ------------------------------------------------------- program constants
max_consecutive_failures == 10
DefaultBatchSize == 50

\* --batch-size values tried with the short candidate lists
SmallBatches == {1, 2}

\* The Remote Store's behaviour in one scenario: "free" lets every read and
\* insert succeed or fail; "nodata" makes every insert return no data and
\* "raise" makes every insert raise (the failing stub), files being readable;
\* "unreadable" makes every read fail; "gap" makes every insert raise but
\* that of the file at GapIndex, which is confirmed.
Stores == {"free", "nodata", "raise", "unreadable", "gap"}

FailingStub == {"nodata", "raise"}

GapIndex == 4

VARIABLES
    N,                    \* len(all_files)
    batch_size,           \* --batch-size
    store,                \* the scenario of the Remote Store
    fs,                   \* the files .migration_progress.json and .tmp
    data,                 \* MigrationProgress.data
    args,                 \* the command line and environment of the invocation
    status,               \* "idle", "running", "exited"
    pc,                   \* position of the running process
    ending,               \* how the invocation ended
    exit_code,            \* process exit status, -1 when there is none
    i,                    \* loop variable of migrate_all
    start_index,          \* migrate_all's start_index
    consecutive_failures, \* BlogMigrator.consecutive_failures
    existing_ids,         \* BlogMigrator.existing_ids
    save_ret,             \* the call site of the save in progress
    saved_ok,             \* whether the last save() replaced the ledger file
    error_dir,            \* migration_errors: the files copied and the files logged
    rows,                 \* Remote Store: the blogs table, row id -> file it came from
    listing,              \* result of the listing call, until the loop is entered
    ledger0,              \* the ledger file as main left it before migrate_all
    calls,                \* insert calls per file in this invocation
    outcome,              \* result of migrate_single_file per file, this invocation
    run,                  \* number of invocations so far
    everReset,            \* some invocation so far used --reset
    persisted,            \* the ledger state last swapped into the ledger file
    intr_k,               \* files fully processed when the interrupt arrived
    faults,               \* kills, interrupts and failed saves so far
    prev                  \* how the previous invocation ended, when its last
                          \* save replaced the ledger file ("other" when not),
                          \* and the index it was interrupted or halted at

vars == <<N, batch_size, store, fs, error_dir, data, args, status, pc, ending, exit_code, i,
          start_index, consecutive_failures, existing_ids, save_ret, saved_ok,
          rows, listing, ledger0, calls, outcome, run, everReset, persisted, intr_k, faults,
          prev>>

config == <<N, batch_size, store>>
Fault ==
    /\ faults < MaxFaults
    /\ faults' = faults + 1
memory == <<data, i, start_index, consecutive_failures, existing_ids>>
remote == <<rows, calls>>
ghost == <<listing, ledger0>>

Files == 0 .. (N - 1)

\* ------------------------------------------------------------ file identity
generate_file_key(f) == <<"md5", f>>

relative_path(f) == <<"path", f>>

\* -------------------------------------------------------- MigrationProgress
\* self.data is a record of all its keys plus `absent`, the keys the dict does
\* not have (none for a dict the program built); reading an absent key is a
\* KeyError, and the value kept under it here is never looked at
EmptyMap == [r \in {} |-> ""]

Fresh ==
    [migrated_ids |-> {}, failed |-> EmptyMap, skipped |-> {},
     last_file_index |-> 0, total_files |-> 0,
     stats |-> [total_files |-> 0, migrated |-> 0, skipped |-> 0, errors |-> 0],
     file_list_hash |-> "None", absent |-> {}]

is_migrated_smart(d, file_id) ==
    \/ file_id \in d.migrated_ids
    \/ /\ ~args.force
       /\ \E id \in existing_ids \cap DOMAIN rows :
             generate_file_key(rows[id]) = file_id

is_migrated(d, file_id) == file_id \in d.migrated_ids

mark_migrated_recount(d, file_id) ==
    [d EXCEPT !.migrated_ids = @ \cup {file_id}, !.stats.migrated = @ + 1]

mark_migrated(d, file_id) ==
    IF file_id \notin d.migrated_ids
    THEN [d EXCEPT !.migrated_ids = @ \cup {file_id}, !.stats.migrated = @ + 1]
    ELSE d

mark_skipped(d, file_id) ==
    IF file_id \notin d.skipped
    THEN [d EXCEPT !.skipped = @ \cup {file_id}, !.stats.skipped = @ + 1]
    ELSE d

mark_failed_once(d, file_id, error) ==
    [d EXCEPT !.failed = [r \in (DOMAIN d.failed) \cup {file_id} |->
                              IF r = file_id THEN error ELSE d.failed[r]],
              !.stats.errors = IF file_id \in DOMAIN d.failed THEN @ ELSE @ + 1]

mark_failed(d, file_id, error) ==
    [d EXCEPT !.failed = [r \in (DOMAIN d.failed) \cup {file_id} |->
                              IF r = file_id THEN error ELSE d.failed[r]],
              !.stats.errors = @ + 1]

update_index_unchanged(d, index) == d

update_index_skip(d, index) == [d EXCEPT !.last_file_index = index + 1]

update_index(d, index) == [d EXCEPT !.last_file_index = index]

progress_reset_keeps_index(d) == [Fresh EXCEPT !.last_file_index = d.last_file_index]

\* MigrationProgress.reset, lines 137-151
progress_reset(d) == Fresh

set_file_list_hash(d, hash_value) == [d EXCEPT !.file_list_hash = hash_value]

\* ------------------------------------------------------------ the JSON file
cache_file == ".migration_progress.json"

with_suffix_same(name) == name

with_suffix(name) == IF name = cache_file THEN ".migration_progress.tmp" ELSE name

FileNames == {cache_file, with_suffix(cache_file)}

RECURSIVE list(_)
list(S) ==
    IF S = {} THEN <<>>
    ELSE LET x == CHOOSE y \in S : \A z \in S : y[2] <= z[2]
         IN  <<x>> \o list(S \ {x})

set(l) == {l[n] : n \in 1 .. Len(l)}

\* json.dump(save_data): the two sets are written as lists
Dump(d) ==
    [migrated_ids |-> list(d.migrated_ids), failed |-> d.failed,
     skipped |-> list(d.skipped), last_file_index |-> d.last_file_index,
     total_files |-> d.total_files, stats |-> d.stats,
     file_list_hash |-> d.file_list_hash, absent |-> d.absent]

NoFile == [exists |-> FALSE, kind |-> "none", doc |-> Dump(Fresh)]

Partial == [exists |-> TRUE, kind |-> "partial", doc |-> Dump(Fresh)]

Written(d) == [exists |-> TRUE, kind |-> "json", doc |-> Dump(d)]

\* loaded.get(key, []) of lines 85-86
get(doc, key, default) == IF key \in doc.absent THEN default ELSE doc[key]

\* MigrationProgress.__init__ + load: the default state, replaced by the
\* parsed document when the file exists and json.load does not raise; the
\* assignment of line 87 comes before the messages of lines 88-89, whose
\* KeyError is swallowed at line 90
load(file) ==
    IF file.exists /\ file.kind = "json"
    THEN [migrated_ids |-> set(get(file.doc, "migrated_ids", <<>>)),
          failed |-> file.doc.failed,
          skipped |-> set(get(file.doc, "skipped", <<>>)),
          last_file_index |-> file.doc.last_file_index,
          total_files |-> file.doc.total_files, stats |-> file.doc.stats,
          file_list_hash |-> file.doc.file_list_hash,
          absent |-> file.doc.absent \ {"migrated_ids", "skipped"}]
    ELSE Fresh

\* ------------------------------------------------------------- BlogMigrator
compute_file_list_hash == "h"

ListResults == {"ok", "401 Unauthorized", "Invalid API key", "timed out"}

AuthErrorOnly401(error_str) == error_str = "401 Unauthorized"

AuthError(error_str) == error_str \in {"401 Unauthorized", "Invalid API key"}

ReadResults ==
    IF store = "free" THEN {"ok", "none"}
    ELSE IF store = "unreadable" THEN {"none"} ELSE {"ok"}

InsertResults ==
    IF store = "free" THEN {"data", "nodata", "raise"}
    ELSE IF store = "nodata" THEN {"nodata"}
    ELSE IF store = "gap" /\ i = GapIndex THEN {"data"} ELSE {"raise"}

\* what one call of copy_failed_file finds: everything works, shutil.copy2
\* (or the mkdir before it) raises, or the append to error_log.txt raises
CopyResults == {"ok", "copy fails", "log fails"}

\* copy_failed_file, lines 223-240: the copy, then the log entry
copy_failed_file(dir, f, result) ==
    [files |-> IF result = "copy fails" THEN dir.files ELSE dir.files \cup {f},
     log |-> IF result = "ok" THEN dir.log \cup {f} ELSE dir.log]

copy_raises_on_failure(result) == result # "ok"

\* copy_failed_file, lines 242-244: every Exception is caught
copy_raises(result) == FALSE

keep_on_success(failures) == failures

\* self.consecutive_failures = 0, line 402
reset_on_success(failures) == 0

ShouldHaltOnFirst(failures) == failures >= 1

ShouldHaltAfter(failures) == failures > max_consecutive_failures

ShouldHalt(failures) == failures >= max_consecutive_failures

halt_ledger_advanced(d, index) == update_index(d, index + 1)

\* the ledger handed to the save of line 472: progress.data as
\* migrate_single_file(all_files[index]) left it, line 476 not yet run
halt_ledger(d, index) == d

files_in_current_batch(index, start) == ((index - start) % batch_size) + 1

IsCheckpointFinalOnly(index, start) == index = N - 1

IsCheckpoint(index, start) ==
    files_in_current_batch(index, start) = batch_size \/ index = N - 1

StartIndexZero(d) == 0

StartIndex(d) == d.last_file_index

ExitStatusZero(d) == 0

ExitStatus(d) == IF d.stats.errors > 0 THEN 1 ELSE 0

\* confirmed inserts of file f over all invocations
Confirmed(f) == Cardinality({id \in DOMAIN rows : rows[id] = f})

\* the candidate files the rows of a set of remote ids came from
SourceFiles(ids) == {rows[id] : id \in ids \cap DOMAIN rows}

\* ------------------------------------------------------------------- Init
Init ==
    /\ store \in Stores
    /\ N \in IF store = "free" THEN 1 .. MaxFiles
             ELSE max_consecutive_failures .. (max_consecutive_failures + HaltExtra)
    /\ batch_size \in IF store = "free" THEN SmallBatches ELSE {DefaultBatchSize}
    /\ fs = [n \in FileNames |-> NoFile]
    /\ data = Fresh
    /\ args = [reset |-> FALSE, force |-> FALSE, creds |-> TRUE]
    /\ status = "idle"
    /\ pc = "none"
    /\ ending = "none"
    /\ exit_code = -1
    /\ i = 0
    /\ start_index = 0
    /\ consecutive_failures = 0
    /\ existing_ids = {}
    /\ save_ret = "none"
    /\ saved_ok = FALSE
    /\ rows = <<>>
    /\ error_dir = [files |-> {}, log |-> {}]
    /\ listing = "none"
    /\ ledger0 = NoFile
    /\ calls = [f \in Files |-> 0]
    /\ outcome = [f \in Files |-> "none"]
    /\ run = 0
    /\ everReset = FALSE
    /\ persisted = Fresh
    /\ intr_k = -1
    /\ faults = 0
    /\ prev = [how |-> "other", k |-> -1]

\* ---------------------------------------------------------------- helpers
Exit(code, how) ==
    /\ status' = "exited"
    /\ ending' = how
    /\ exit_code' = code

Go(to) ==
    /\ pc' = to
    /\ UNCHANGED <<status, ending, exit_code>>

\* progress.save() is entered from call site `ret`
CallSave(ret) ==
    /\ pc' = "save_write"
    /\ save_ret' = ret
    /\ UNCHANGED <<status, ending, exit_code>>

\* what follows the return of save() at each call site
SaveReturn ==
    CASE save_ret = "ckpt" ->
            IF i < N - 1
            THEN /\ Go("sleep")
                 /\ i' = i
            ELSE /\ Go("loop")
                 /\ i' = i + 1
      [] save_ret = "halt" ->
            /\ Exit(1, "halted")
            /\ UNCHANGED <<pc, i>>
      [] save_ret = "intr" ->
            /\ Exit(1, "interrupted")
            /\ UNCHANGED <<pc, i>>
      [] save_ret = "final" ->
            /\ Exit(ExitStatus(data), "done")
            /\ UNCHANGED <<pc, i>>

\* ---------------------------------------------------------------- actions
\* the command lines tried: every combination of --reset and --force with the
\* credentials set, and one invocation without credentials
Invocations ==
    [reset : BOOLEAN, force : BOOLEAN, creds : {TRUE}]
        \cup {[reset |-> FALSE, force |-> FALSE, creds |-> FALSE]}

\* the operator starts the script
Invoke(reset, force, creds) ==
    /\ status \in {"idle", "exited"}
    /\ run < MaxRuns
    /\ run' = run + 1
    /\ args' = [reset |-> reset, force |-> force, creds |-> creds]
    /\ prev' = [how |-> IF saved_ok /\ ending \in {"done", "interrupted", "halted"}
                         THEN ending ELSE "other",
                 k |-> IF saved_ok /\ ending = "interrupted" THEN intr_k
                       ELSE IF saved_ok /\ ending = "halted" THEN i ELSE -1]
    /\ status' = "running"
    /\ pc' = "main"
    /\ ending' = "running"
    /\ exit_code' = -1
    /\ data' = Fresh
    /\ i' = 0
    /\ start_index' = 0
    /\ consecutive_failures' = 0
    /\ existing_ids' = {}
    /\ save_ret' = "none"
    /\ saved_ok' = FALSE
    /\ calls' = [f \in Files |-> 0]
    /\ outcome' = [f \in Files |-> "none"]
    /\ intr_k' = -1
    /\ listing' = "none"
    /\ ledger0' = NoFile
    /\ UNCHANGED <<config, error_dir, fs, rows, everReset, persisted, faults>>

\* main: credentials, MigrationProgress(cache_file), --reset
MainStartupError ==
    /\ status = "running" /\ pc = "main"
    /\ ~args.creds
    /\ Exit(1, "startup")
    /\ UNCHANGED <<config, error_dir, fs, memory, args, pc, save_ret, saved_ok, remote, outcome,
                   run, everReset, persisted, intr_k, prev,
                   faults, ghost>>

MainLoad ==
    /\ status = "running" /\ pc = "main"
    /\ args.creds /\ ~args.reset
    /\ data' = load(fs[cache_file])
    /\ ledger0' = fs[cache_file]
    /\ Go("scan")
    /\ UNCHANGED <<config, error_dir, fs, args, i, start_index, consecutive_failures,
                   existing_ids, save_ret, saved_ok, remote, outcome, run,
                   everReset, persisted, intr_k, prev,
                   faults, listing>>

MainReset ==
    /\ status = "running" /\ pc = "main"
    /\ args.creds /\ args.reset
    /\ data' = progress_reset(load(fs[cache_file]))
    /\ fs' = [fs EXCEPT ![cache_file] = NoFile]
    /\ persisted' = Fresh
    /\ everReset' = TRUE
    /\ ledger0' = NoFile
    /\ Go("scan")
    /\ UNCHANGED <<config, error_dir, args, i, start_index, consecutive_failures,
                   existing_ids, save_ret, saved_ok, remote, outcome, run,
                   intr_k, prev,
                   faults, listing>>

\* migrate_all, lines 429-449
Scan ==
    /\ status = "running" /\ pc = "scan"
    /\ "stats" \notin data.absent
    /\ data' = [set_file_list_hash(data, compute_file_list_hash)
                   EXCEPT !.total_files = N, !.stats.total_files = N]
    /\ Go(IF ~args.force THEN "fetch" ELSE "resume")
    /\ UNCHANGED <<config, error_dir, fs, args, i, start_index, consecutive_failures,
                   existing_ids, save_ret, saved_ok, remote, outcome, run,
                   everReset, persisted, intr_k, prev,
                   faults, ghost>>

\* fetch_existing_ids
Fetch ==
    /\ status = "running" /\ pc = "fetch"
    /\ \E r \in ListResults :
          /\ listing' = r
          /\ IF r = "ok"
             THEN /\ existing_ids' = DOMAIN rows
                  /\ Go("resume")
             ELSE IF AuthError(r)
             THEN /\ Exit(1, "auth")
                  /\ UNCHANGED <<pc, existing_ids>>
             ELSE /\ Go("resume")
                  /\ UNCHANGED existing_ids
    /\ UNCHANGED <<config, error_dir, fs, data, args, i, start_index, consecutive_failures,
                   save_ret, saved_ok, remote, outcome, run, everReset, persisted,
                   intr_k, prev,
                   faults, ledger0>>

\* migrate_all, lines 451-458
Resume ==
    /\ status = "running" /\ pc = "resume"
    /\ "last_file_index" \notin data.absent
    /\ start_index' = StartIndex(data)
    /\ i' = StartIndex(data)
    /\ listing' = "none"
    /\ Go("loop")
    /\ UNCHANGED <<config, error_dir, fs, data, args, consecutive_failures, existing_ids,
                   save_ret, saved_ok, remote, outcome, run, everReset, persisted,
                   intr_k, prev,
                   faults, ledger0>>

\* for i in range(start_index, len(all_files)), and the final save after it
LoopNext ==
    /\ status = "running" /\ pc = "loop"
    /\ i < N
    /\ Go("file")
    /\ UNCHANGED <<config, error_dir, fs, memory, args, save_ret, saved_ok, remote, outcome,
                   run, everReset, persisted, intr_k, prev,
                   faults, ghost>>

LoopEnd ==
    /\ status = "running" /\ pc = "loop"
    /\ i >= N
    /\ CallSave("final")
    /\ UNCHANGED <<config, error_dir, fs, memory, args, saved_ok, remote, outcome, run,
                   everReset, persisted, intr_k, prev,
                   faults, ghost>>

\* one call of copy_failed_file for file i; a failure inside it is one of the
\* faults of the behaviour
Quarantine(q) ==
    /\ q # "ok" => faults < MaxFaults
    /\ faults' = IF q = "ok" THEN faults ELSE faults + 1
    /\ error_dir' = copy_failed_file(error_dir, i, q)

\* lines 411-414 when an exception leaves copy_failed_file inside the try: the
\* handler marks the file failed again and calls copy_failed_file again, whose
\* exception leaves migrate_single_file
Escaped(d) == mark_failed(d, relative_path(i), "str(e)")

\* migrate_single_file, lines 383-395
FileAlreadyMigrated ==
    /\ status = "running" /\ pc = "file"
    /\ is_migrated(data, generate_file_key(i))
    /\ outcome' = [outcome EXCEPT ![i] = "already"]
    /\ Go("check")
    /\ UNCHANGED <<config, error_dir, fs, memory, args, save_ret, saved_ok, remote, run,
                   everReset, persisted, intr_k, prev,
                   faults, ghost>>

FileRead ==
    /\ status = "running" /\ pc = "file"
    /\ ~is_migrated(data, generate_file_key(i))
    /\ \E r \in ReadResults :
          IF r = "ok"
          THEN /\ Go("insert")
               /\ UNCHANGED <<data, outcome, error_dir, faults>>
          ELSE \E q \in CopyResults :
                  /\ Quarantine(q)
                  /\ outcome' = [outcome EXCEPT ![i] = "readfail"]
                  /\ IF copy_raises(q)
                     THEN /\ data' = Escaped(mark_failed(data, relative_path(i),
                                                   "Could not read file content"))
                          /\ Exit(1, "fatal")
                          /\ UNCHANGED pc
                     ELSE /\ data' = mark_failed(data, relative_path(i),
                                                 "Could not read file content")
                          /\ Go("check")
    /\ UNCHANGED <<config, fs, args, i, start_index, consecutive_failures,
                   existing_ids, save_ret, saved_ok, remote, run, everReset,
                   persisted, intr_k, prev, ghost>>

\* migrate_single_file, lines 397-416
Insert ==
    /\ status = "running" /\ pc = "insert"
    /\ calls' = [calls EXCEPT ![i] = @ + 1]
    /\ \E r \in InsertResults :
          CASE r = "data" ->
                  /\ rows' = Append(rows, i)
                  /\ Go("mark")
                  /\ UNCHANGED <<data, consecutive_failures, outcome, error_dir,
                                 faults>>
            [] r = "nodata" ->
                  \E q \in CopyResults :
                     /\ Quarantine(q)
                     /\ outcome' = [outcome EXCEPT ![i] = "nodata"]
                     /\ UNCHANGED rows
                     /\ IF copy_raises(q)
                        THEN /\ data' = Escaped(mark_failed(data, generate_file_key(i),
                                                      "Insert returned no data"))
                             /\ Exit(1, "fatal")
                             /\ UNCHANGED <<pc, consecutive_failures>>
                        ELSE /\ data' = mark_failed(data, generate_file_key(i),
                                                    "Insert returned no data")
                             /\ consecutive_failures' = consecutive_failures + 1
                             /\ Go("check")
            [] r = "raise" ->
                  \E q \in CopyResults :
                     /\ Quarantine(q)
                     /\ outcome' = [outcome EXCEPT ![i] = "raise"]
                     /\ UNCHANGED rows
                     /\ data' = mark_failed(data, relative_path(i), "str(e)")
                     /\ IF copy_raises(q)
                        THEN /\ Exit(1, "fatal")
                             /\ UNCHANGED <<pc, consecutive_failures>>
                        ELSE /\ consecutive_failures' = consecutive_failures + 1
                             /\ Go("check")
    /\ UNCHANGED <<config, fs, args, i, start_index, existing_ids, save_ret,
                   saved_ok, run, everReset, persisted, intr_k, prev, ghost>>

\* result.data is there: lines 400-403
Mark ==
    /\ status = "running" /\ pc = "mark"
    /\ data' = mark_migrated(data, generate_file_key(i))
    /\ consecutive_failures' = reset_on_success(consecutive_failures)
    /\ outcome' = [outcome EXCEPT ![i] = "ok"]
    /\ Go("check")
    /\ UNCHANGED <<config, error_dir, fs, args, i, start_index, existing_ids, save_ret,
                   saved_ok, remote, run, everReset, persisted, intr_k, prev,
                   faults, ghost>>

\* migrate_all, lines 467-473
Halt ==
    /\ status = "running" /\ pc = "check"
    /\ ShouldHalt(consecutive_failures)
    /\ data' = halt_ledger(data, i)
    /\ CallSave("halt")
    /\ UNCHANGED <<config, error_dir, fs, i, start_index, consecutive_failures, existing_ids,
                   args, saved_ok, remote, outcome, run,
                   everReset, persisted, intr_k, prev,
                   faults, ghost>>

\* migrate_all, lines 475-486
Advance ==
    /\ status = "running" /\ pc = "check"
    /\ ~ShouldHalt(consecutive_failures)
    /\ data' = update_index(data, i + 1)
    /\ IF IsCheckpoint(i, start_index)
       THEN /\ CallSave("ckpt")
            /\ i' = i
       ELSE /\ Go("loop")
            /\ i' = i + 1
            /\ UNCHANGED save_ret
    /\ UNCHANGED <<config, error_dir, fs, args, start_index, consecutive_failures,
                   existing_ids, saved_ok, remote, outcome, run, everReset,
                   persisted, intr_k, prev,
                   faults, ghost>>

\* save, lines 96-104: the whole state is written to the temporary file
SaveWrite ==
    /\ status = "running" /\ pc = "save_write"
    /\ fs' = [fs EXCEPT ![with_suffix(cache_file)] = Written(data)]
    /\ Go("save_replace")
    /\ UNCHANGED <<config, error_dir, memory, args, save_ret, saved_ok, remote, outcome, run,
                   everReset, persisted, intr_k, prev,
                   faults, ghost>>

\* save, lines 103-107: open or json.dump raises, the exception is swallowed
SaveWriteFails ==
    /\ status = "running"
    /\ Fault /\ pc = "save_write"
    /\ \E left \in {fs[with_suffix(cache_file)], Partial} :
          fs' = [fs EXCEPT ![with_suffix(cache_file)] = left]
    /\ saved_ok' = FALSE
    /\ SaveReturn
    /\ UNCHANGED <<config, error_dir, data, args, start_index, consecutive_failures,
                   existing_ids, save_ret, remote, outcome, run, everReset,
                   persisted, intr_k, prev, ghost>>

\* save, line 105: temp_file.replace(self.cache_file)
SaveReplace ==
    /\ status = "running" /\ pc = "save_replace"
    /\ fs' = [n \in FileNames |->
                 IF n = cache_file THEN fs[with_suffix(cache_file)] ELSE NoFile]
    /\ saved_ok' = TRUE
    /\ persisted' = data
    /\ SaveReturn
    /\ UNCHANGED <<config, error_dir, data, args, start_index, consecutive_failures,
                   existing_ids, save_ret, remote, outcome, run, everReset,
                   intr_k, prev,
                   faults, ghost>>

SaveReplaceFails ==
    /\ status = "running"
    /\ Fault /\ pc = "save_replace"
    /\ saved_ok' = FALSE
    /\ SaveReturn
    /\ UNCHANGED <<config, error_dir, fs, data, args, start_index, consecutive_failures,
                   existing_ids, save_ret, remote, outcome, run, everReset,
                   persisted, intr_k, prev, ghost>>

\* time.sleep(self.batch_delay), lines 494-496
Sleep ==
    /\ status = "running" /\ pc = "sleep"
    /\ i' = i + 1
    /\ Go("loop")
    /\ UNCHANGED <<config, error_dir, fs, data, args, start_index, consecutive_failures,
                   existing_ids, save_ret, saved_ok, remote, outcome, run,
                   everReset, persisted, intr_k, prev,
                   faults, ghost>>

\* positions inside the try block of migrate_all (lines 460-496)
InTry ==
    \/ pc \in {"loop", "file", "insert", "mark", "check", "sleep"}
    \/ pc \in {"save_write", "save_replace"} /\ save_ret \in {"ckpt", "halt"}

\* positions of migrate_all outside its try block: the startup, the final
\* save, and the save of the KeyboardInterrupt handler (line 500)
OutsideTry ==
    \/ pc \in {"scan", "fetch", "resume"}
    \/ pc \in {"save_write", "save_replace"} /\ save_ret \in {"final", "intr"}

\* the number of files whose per-file step (through update_index) is complete,
\* -1 inside the step between migrate_single_file's return and update_index
FilesProcessed ==
    CASE pc \in {"loop", "file", "insert", "mark"} -> i
      [] pc = "sleep" -> i + 1
      [] pc \in {"save_write", "save_replace"} /\ save_ret = "ckpt" -> i + 1
      [] OTHER -> -1

\* KeyboardInterrupt inside the try block: lines 498-502, then main 623-625
InterruptProcessing ==
    /\ status = "running"
    /\ Fault
    /\ InTry
    /\ intr_k' = FilesProcessed
    /\ CallSave("intr")
    /\ UNCHANGED <<config, error_dir, fs, memory, args, saved_ok, remote, outcome, run,
                   everReset, persisted, prev, ghost>>

\* KeyboardInterrupt in migrate_all outside the try block: main 623-625
InterruptOutside ==
    /\ status = "running"
    /\ Fault
    /\ OutsideTry
    /\ Exit(1, "interrupted_outside")
    /\ UNCHANGED <<config, error_dir, fs, memory, args, pc, save_ret, saved_ok, remote,
                   outcome, run, everReset, persisted, intr_k, prev, ghost>>

\* the process is killed: nothing more is executed and its memory is gone; a
\* write in progress may leave the file it was writing incomplete
Crash ==
    /\ status = "running"
    /\ Fault
    /\ IF pc = "save_write"
       THEN \E left \in {fs[with_suffix(cache_file)], Partial} :
                fs' = [fs EXCEPT ![with_suffix(cache_file)] = left]
       ELSE UNCHANGED fs
    /\ Exit(-1, "crash")
    /\ pc' = "none"
    /\ data' = Fresh
    /\ i' = 0
    /\ start_index' = 0
    /\ consecutive_failures' = 0
    /\ existing_ids' = {}
    /\ save_ret' = "none"
    /\ saved_ok' = FALSE
    /\ calls' = [f \in Files |-> 0]
    /\ outcome' = [f \in Files |-> "none"]
    /\ intr_k' = -1
    /\ listing' = "none"
    /\ ledger0' = NoFile
    /\ UNCHANGED <<config, error_dir, args, rows, run, everReset, persisted, prev>>

Next ==
    \/ \E a \in Invocations : Invoke(a.reset, a.force, a.creds)
    \/ MainStartupError
    \/ MainLoad
    \/ MainReset
    \/ Scan
    \/ Fetch
    \/ Resume
    \/ LoopNext
    \/ LoopEnd
    \/ FileAlreadyMigrated
    \/ FileRead
    \/ Insert
    \/ Mark
    \/ Halt
    \/ Advance
    \/ SaveWrite
    \/ SaveWriteFails
    \/ SaveReplace
    \/ SaveReplaceFails
    \/ Sleep
    \/ InterruptProcessing
    \/ InterruptOutside
    \/ Crash

Spec == Init /\ [][Next]_vars

\* ------------------------------------------ a ledger file found at startup
\* A second specification: the ledger file is already there when the script is
\* first started and need not be one that save() wrote.  It is absent, not
\* parseable, or a JSON object that has all the keys or lacks some of them,
\* or the ledger of a run over a longer candidate list (the tree has lost a
\* file since).
\* No kill, interrupt or failed save happens here.
MissingKeys == {{}, {"migrated_ids"}, {"last_file_index"}, {"stats"}}

\* a ledger as a run leaves it that migrated the first m files and saved with
\* the cursor at c (m = c + 1 when it was interrupted before update_index)
PrefixMigrated(m, c) ==
    [Fresh EXCEPT !.migrated_ids = {generate_file_key(f) : f \in 0 .. (m - 1)},
                  !.stats.migrated = m, !.last_file_index = c,
                  !.total_files = N, !.stats.total_files = N,
                  !.file_list_hash = compute_file_list_hash]

Without(file, keys) == [file EXCEPT !.doc.absent = keys]

\* the ledger a run left that reached DONE when the candidate list had one
\* more file at its end than it has now (lines 443-445, 476, 505)
StaleLedger ==
    [PrefixMigrated(N + 1, N + 1) EXCEPT !.total_files = N + 1,
                                         !.stats.total_files = N + 1,
                                         !.file_list_hash = "h_before"]

LedgerFilesOnDisk ==
    {NoFile, Partial, Written(StaleLedger)}
        \cup {Without(Written(PrefixMigrated(mc[1], mc[2])), keys) :
                  mc \in {x \in (0 .. N) \X (0 .. N) : x[1] - x[2] \in {0, 1}},
                  keys \in MissingKeys}

\* main, lines 626-630: an exception other than KeyboardInterrupt leaves
\* migrate_all; here the KeyError of line 445 or of line 452
FatalError ==
    /\ status = "running"
    /\ IF pc = "scan" THEN "stats" \in data.absent
       ELSE pc = "resume" /\ "last_file_index" \in data.absent
    /\ Exit(1, "fatal")
    /\ UNCHANGED <<config, error_dir, fs, memory, args, pc, save_ret, saved_ok, remote,
                   outcome, run, everReset, persisted, intr_k, prev, faults,
                   ghost>>

InitLoad ==
    /\ store = "free"
    /\ N \in 1 .. MaxFiles
    /\ batch_size \in SmallBatches
    /\ \E file \in LedgerFilesOnDisk :
          /\ fs = [n \in FileNames |-> IF n = cache_file THEN file ELSE NoFile]
          /\ persisted = load(file)
    /\ data = Fresh
    /\ args = [reset |-> FALSE, force |-> FALSE, creds |-> TRUE]
    /\ status = "idle"
    /\ pc = "none"
    /\ ending = "none"
    /\ exit_code = -1
    /\ i = 0
    /\ start_index = 0
    /\ consecutive_failures = 0
    /\ existing_ids = {}
    /\ save_ret = "none"
    /\ saved_ok = FALSE
    /\ rows = <<>>
    /\ error_dir = [files |-> {}, log |-> {}]
    /\ listing = "none"
    /\ ledger0 = NoFile
    /\ calls = [f \in Files |-> 0]
    /\ outcome = [f \in Files |-> "none"]
    /\ run = 0
    /\ everReset = FALSE
    /\ intr_k = -1
    /\ faults = MaxFaults
    /\ prev = [how |-> "other", k |-> -1]

NextLoad ==
    \/ \E a \in Invocations : Invoke(a.reset, a.force, a.creds)
    \/ MainStartupError
    \/ MainLoad
    \/ MainReset
    \/ Scan
    \/ Fetch
    \/ Resume
    \/ FatalError
    \/ LoopNext
    \/ LoopEnd
    \/ FileAlreadyMigrated
    \/ FileRead
    \/ Insert
    \/ Mark
    \/ Advance
    \/ SaveWrite
    \/ SaveReplace
    \/ Sleep

SpecLoad == InitLoad /\ [][NextLoad]_vars

\* ----------------------------------------------------------------- claims
FailureKinds == {"readfail", "nodata", "raise"}

HasFailedEntry(d, f) ==
    generate_file_key(f) \in DOMAIN d.failed \/ relative_path(f) \in DOMAIN d.failed

\* the process is inside the loop of migrate_all or one of its saves
InProcessing ==
    /\ status = "running"
    /\ pc \in {"loop", "file", "insert", "mark", "check", "sleep", "save_write",
               "save_replace"}

\* C1: over all invocations sharing one ledger without --reset, whatever way
\* each of them ends (kill, cancellation, systemic halt), every candidate file
\* receives at most one confirmed insert in the Remote Store.
C1_NoDuplicateUploads ==
    ~everReset => \A f \in Files : Confirmed(f) <= 1

\* C2: a run cancelled in PROCESSING after the per-file steps of files [0, k)
\* and before that of file k persists the ledger with cursor k on the
\* cancellation path, and the next invocation starts at index k and submits
\* none of the files [0, k).
C2_ResumeCorrectness ==
    /\ (status = "exited" /\ ending = "interrupted" /\ intr_k >= 0 /\ saved_ok)
          => /\ fs[cache_file].exists
             /\ load(fs[cache_file]).last_file_index = intr_k
    /\ (prev.how = "interrupted" /\ prev.k >= 0 /\ ~args.reset)
          => /\ \A f \in Files : f < prev.k => calls[f] = 0 /\ outcome[f] = "none"
             /\ InProcessing => start_index = prev.k

C2_Witness ==
    /\ status = "running" /\ pc = "insert" /\ i = 1
    /\ prev.how = "interrupted" /\ prev.k = 1
    /\ ~args.reset
    /\ HasFailedEntry(data, 0)

\* C3: when run 1 reached DONE and persisted its ledger and run 2 starts on it
\* without --reset, run 2 loads the state run 1 persisted, issues no insert
\* call and leaves the migrated set and stats.migrated unchanged.
C3_Idempotence ==
    [][(prev.how = "done" /\ ~args.reset /\ args.creds
           /\ status = "running" /\ ending' # "crash")
         => /\ calls' = [f \in Files |-> 0]
            /\ pc = "main" => /\ data'.migrated_ids = persisted.migrated_ids
                              /\ data'.stats.migrated = persisted.stats.migrated
                              /\ data'.last_file_index = N
            /\ pc # "main" => /\ data'.migrated_ids = data.migrated_ids
                              /\ data'.stats.migrated = data.stats.migrated]_vars

C3_Witness ==
    /\ status = "exited" /\ ending = "done" /\ run = 2
    /\ prev.how = "done" /\ ~args.reset
    /\ data.stats.migrated = 1 /\ data.stats.errors = 1

\* C4: from a fresh ledger, with a Remote Store whose every insert fails and at
\* least 10 candidate files, the engine attempts at most 10 files, each once,
\* and the ledger persisted at the halt has stats.errors = 10, 10 entries in
\* failed, nothing migrated, and the cursor.
C4_SystemicHalt ==
    (store \in FailingStub /\ run = 1)
        => /\ \A f \in Files : calls[f] <= 1
           /\ Cardinality({f \in Files : calls[f] > 0}) <= 10
           /\ i < 10
           /\ ending # "done"
           /\ (ending = "halted" /\ saved_ok)
                 => /\ fs[cache_file].exists
                    /\ load(fs[cache_file]).stats.errors = 10
                    /\ Cardinality(DOMAIN load(fs[cache_file]).failed) = 10
                    /\ load(fs[cache_file]).migrated_ids = {}
                    /\ load(fs[cache_file]).stats.migrated = 0
                    /\ load(fs[cache_file]).last_file_index = 9

C4_Witness ==
    /\ store = "nodata" /\ run = 1 /\ N = 11
    /\ status = "exited" /\ ending = "halted" /\ saved_ok
    /\ Cardinality({f \in Files : calls[f] > 0}) = 10

\* C5: the ledger file is never seen partially written; it always holds the
\* state last swapped in by a completed save (or is absent after reset), also
\* after a kill at any point inside save, and that state is what load restores.
C5_AtomicSave ==
    /\ fs[cache_file].exists => fs[cache_file].kind = "json"
    /\ load(fs[cache_file]) = persisted
    /\ (status = "running" /\ pc = "scan") => data = persisted

C5_Witness ==
    /\ status = "running" /\ pc = "scan" /\ ~args.reset
    /\ run = 2
    /\ fs[with_suffix(cache_file)].kind = "json"
    /\ fs[with_suffix(cache_file)].doc.last_file_index = 2
    /\ fs[cache_file].exists
    /\ data.last_file_index = 1

\* C6: a per-file failure is recorded in failed and in the error counter and
\* does not stop the run: while the consecutive-failure counter is below 10,
\* the engine advances the cursor and goes on with the next file, so a run
\* that reaches DONE has processed every file from its start index on.
C6_FailureIsolation ==
    [][/\ \A f \in Files :
             (outcome[f] = "none" /\ outcome'[f] \in FailureKinds)
                => /\ HasFailedEntry(data', f)
                   /\ data'.stats.errors = data.stats.errors + 1
                   /\ status' = "running"
       /\ (status = "running" /\ pc = "check" /\ outcome[i] \in FailureKinds
              /\ consecutive_failures < 10
              /\ status' = "running" /\ save_ret' # "intr")
             => /\ data'.last_file_index = i + 1
                /\ save_ret' # "halt"
                /\ pc' \in {"loop", "save_write"}
       /\ ending' = "done"
             => \A f \in Files : f >= start_index => outcome'[f] # "none"]_vars

C6_Witness ==
    /\ status = "running" /\ pc = "insert" /\ i = 1
    /\ outcome[0] \in FailureKinds
    /\ run = 1

\* C7: a file that failed in an earlier invocation and was never marked
\* migrated is read and submitted again by the next invocation without --reset.
C7_FailedFilesReattempted ==
    (status = "exited" /\ ending = "done" /\ ~args.reset)
        => \A f \in Files :
              (HasFailedEntry(data, f) /\ ~is_migrated(data, generate_file_key(f)))
                 => outcome[f] # "none"

\* C8: in smart mode, a file whose record was in the Remote Store listing at
\* the prefetch is marked skipped when it is processed and no insert is issued
\* for it.
C8_SmartModeSkip ==
    \A f \in Files :
        (status = "running" /\ ~args.force
            /\ f \in SourceFiles(existing_ids) /\ outcome[f] # "none")
           => /\ generate_file_key(f) \in data.skipped
              /\ calls[f] = 0

\* C9: the exit status is 0 exactly when the run reached DONE with
\* stats.errors = 0, and 1 when it completed with recorded errors, on a fatal
\* startup or authentication error, on a systemic halt and on interruption.
C9_ExitCodes ==
    status = "exited"
        => /\ exit_code = 0 <=> (ending = "done" /\ data.stats.errors = 0)
           /\ (ending = "done" /\ data.stats.errors > 0) => exit_code = 1
           /\ ending \in {"startup", "auth", "halted", "interrupted",
                          "interrupted_outside"} => exit_code = 1

C9_Witness ==
    /\ status = "exited" /\ ending = "done" /\ exit_code = 1
    /\ data.stats.migrated = 1 /\ data.stats.errors = 1
    /\ run = 1

\* C10: in smart mode a failed listing aborts the run exactly when it is an
\* authentication failure; the run then ends with no file processed, no insert
\* and the ledger file untouched; any other listing failure lets the run go on
\* to PROCESSING.
AuthenticationFailures == {"401 Unauthorized", "Invalid API key"}

C10_PrefetchFailurePolicy ==
    /\ ending = "auth"
          => /\ status = "exited" /\ exit_code = 1
             /\ ~args.force
             /\ listing \in AuthenticationFailures
             /\ \A f \in Files : calls[f] = 0 /\ outcome[f] = "none"
             /\ fs[cache_file] = ledger0
    /\ listing \in AuthenticationFailures => ending = "auth"
    /\ (listing \notin AuthenticationFailures \cup {"none", "ok"}
           /\ status = "running")
          => pc = "resume"

C10_Witness ==
    /\ status = "exited" /\ ending = "auth" /\ run = 2
    /\ ~args.reset
    /\ fs[cache_file].exists
    /\ load(fs[cache_file]).stats.migrated = 1
    /\ load(fs[cache_file]).last_file_index = 1

\* C11: load restores the ledger document when the file is present and has
\* every key; when the file cannot be parsed or its document lacks a key, the
\* in-memory state is the fresh default, and the run does not abort.
WellFormed(file) == file.exists /\ file.kind = "json" /\ file.doc.absent = {}

C11_LoadFallback ==
    /\ (status = "running" /\ pc = "scan" /\ ~args.reset)
          => /\ WellFormed(ledger0) => Written(data) = ledger0
             /\ (ledger0.exists /\ ~WellFormed(ledger0)) => data = Fresh
    /\ ending # "fatal"

\* C12: reset leaves the in-memory ledger at its defaults and no ledger file on
\* disk; a run started with --reset processes from index 0 whatever the prior
\* ledger was; and no step other than reset removes the ledger file.
C12_Reset ==
    [][/\ (status = "running" /\ pc = "main" /\ args.reset /\ pc' = "scan")
             => /\ data'.migrated_ids = {} /\ data'.skipped = {}
                /\ DOMAIN data'.failed = {}
                /\ data'.last_file_index = 0 /\ data'.total_files = 0
                /\ data'.stats = [total_files |-> 0, migrated |-> 0,
                                  skipped |-> 0, errors |-> 0]
                /\ data'.file_list_hash = "None"
                /\ ~fs'[cache_file].exists
       /\ (status' = "running" /\ args'.reset
              /\ pc' \in {"loop", "file", "insert", "mark", "check", "sleep",
                          "save_write", "save_replace"})
             => start_index' = 0
       /\ (fs[cache_file].exists /\ ~fs'[cache_file].exists)
             => (status = "running" /\ pc = "main" /\ args.reset)]_vars

C12_Witness ==
    /\ status = "running" /\ pc = "insert" /\ args.reset
    /\ run = 2 /\ prev.how = "done"
    /\ Len(rows) > 0
    /\ start_index = 0 /\ i = 0

\* C13: marking an identity that is already marked changes neither the set
\* nor the counter, and in every state reached from a fresh ledger, in memory
\* and on disk, stats.migrated is the size of the migrated set and
\* stats.skipped the size of the skipped set.
Counted(d) ==
    /\ d.stats.migrated = Cardinality(d.migrated_ids)
    /\ d.stats.skipped = Cardinality(d.skipped)

C13_IdempotentMarking ==
    /\ Counted(data) /\ Counted(persisted) /\ Counted(load(fs[cache_file]))
    /\ \A f \in Files :
          LET file_id == generate_file_key(f)
              m == mark_migrated(data, file_id)
              sk == mark_skipped(data, file_id)
          IN  /\ mark_migrated(m, file_id) = m
              /\ mark_skipped(sk, file_id) = sk
              /\ Counted(m) /\ Counted(sk)
              /\ is_migrated(data, file_id) => m = data

C13_Witness ==
    /\ status = "running" /\ pc = "file" /\ run = 2
    /\ is_migrated(data, generate_file_key(i))
    /\ data.stats.migrated = 1 /\ N = 2

\* C14 as stated: at every point between files during PROCESSING fewer than B
\* files are processed beyond the ledger last persisted.
BetweenSaves == {"loop", "file", "insert", "mark"}

Resolved(d, j) == is_migrated(d, generate_file_key(j)) \/ HasFailedEntry(d, j)

CursorCovered(d) ==
    /\ d.last_file_index <= N
    /\ \A j \in Files : j < d.last_file_index => Resolved(d, j)

C15_CursorCoversResolved ==
    /\ CursorCovered(persisted)
    /\ \A n \in FileNames : CursorCovered(load(fs[n]))
    /\ (status = "exited" /\ ending = "done")
          => /\ data.last_file_index = N
             /\ \A j \in Files : Resolved(data, j)
             /\ saved_ok => load(fs[cache_file]) = data

C15_Witness ==
    /\ status = "exited" /\ ending = "done" /\ saved_ok /\ N = 2
    /\ load(fs[cache_file]).last_file_index = 2
    /\ ~is_migrated(data, generate_file_key(0)) /\ HasFailedEntry(data, 0)
    /\ is_migrated(data, generate_file_key(1))
    /\ run = 2 /\ faults = 1

\* C16: a file that cannot be read is marked failed under its relative path
\* and increments the consecutive-failure counter, so that when 10 files in a
\* row have failed, by read failure or insert failure, the run halts at the
\* 10th: the cursor does not pass it and the run does not reach DONE.
TenFailed(f) ==
    /\ f >= max_consecutive_failures - 1
    /\ \A g \in (f - (max_consecutive_failures - 1)) .. f :
          outcome[g] \in FailureKinds

C16_ReadFailuresCount ==
    /\ (status = "running" /\ pc = "check" /\ outcome[i] = "readfail")
          => /\ relative_path(i) \in DOMAIN data.failed
             /\ consecutive_failures >= 1
    /\ \A f \in Files :
          TenFailed(f) => (data.last_file_index <= f /\ ending # "done")

\* C17: a confirmed insert marks the file migrated and sets the counter to 0,
\* an insert that returns no data or raises adds one to it; the engine halts
\* for systemic failure only when at least 10 inserts were attempted since the
\* last confirmed one of the run, all of them failed; failures with a
\* confirmed insert between them do not add up to a halt.
InsertsSinceSuccess ==
    {f \in Files : /\ calls[f] > 0
                   /\ \A g \in Files : outcome[g] = "ok" => g < f}

C17_ConsecutiveFailureCounter ==
    [][/\ (status = "running" /\ pc = "mark" /\ pc' = "check")
             => /\ is_migrated(data', generate_file_key(i))
                /\ consecutive_failures' = 0
       /\ (status = "running" /\ pc = "insert" /\ pc' = "check")
             => /\ outcome'[i] \in {"nodata", "raise"}
                /\ HasFailedEntry(data', i)
                /\ consecutive_failures' = consecutive_failures + 1
       /\ (status = "running" /\ pc = "check" /\ save_ret' = "halt")
             => /\ Cardinality(InsertsSinceSuccess) >= 10
                /\ \A f \in InsertsSinceSuccess : outcome[f] \in {"nodata", "raise"}
       /\ store = "gap" => (save_ret' # "halt" /\ ending' # "halted")]_vars

C17_Witness ==
    /\ store = "gap" /\ N = 11 /\ run = 1
    /\ status = "exited" /\ ending = "done"
    /\ data.stats.errors = 10 /\ data.stats.migrated = 1
    /\ consecutive_failures = 6

\* C18: the halt is taken right after the failure of file i, before the cursor
\* is advanced: no later file is attempted in that run, the ledger saved at
\* the halt is the in-memory one, with the failure of file i and the cursor at
\* i, and the next invocation without --reset starts at i and submits file i
\* again.
C18_HaltStep ==
    /\ (save_ret = "halt" /\ status = "running")
          => /\ pc \in {"save_write", "save_replace"}
             /\ data.last_file_index = i
    /\ (status = "exited" /\ ending = "halted")
          => /\ outcome[i] \in {"nodata", "raise"}
             /\ HasFailedEntry(data, i)
             /\ data.last_file_index = i
             /\ \A f \in Files : f > i => (outcome[f] = "none" /\ calls[f] = 0)
             /\ saved_ok => load(fs[cache_file]) = data
    /\ (prev.how = "halted" /\ ~args.reset /\ InProcessing)
          => /\ start_index = prev.k
             /\ (pc = "file" /\ i = start_index)
                   => ~is_migrated(data, generate_file_key(i))
             /\ (pc = "check" /\ i = start_index) => calls[i] = 1

C18_Witness ==
    /\ run = 2 /\ prev.how = "halted" /\ prev.k = 9 /\ ~args.reset
    /\ status = "running" /\ pc = "check" /\ i = 9
    /\ calls[9] = 1
    /\ data.stats.errors = 11

\* C19: a save that fails changes neither the in-memory ledger nor the ledger
\* file and returns to its caller as a successful one does (the run goes on
\* after a checkpoint, reaches DONE after the final save); a save that
\* succeeds leaves in the ledger file the whole in-memory state.
SaveFailed ==
    /\ status = "running" /\ pc \in {"save_write", "save_replace"}
    /\ faults' = faults + 1
    /\ save_ret' = save_ret
    /\ ending' \notin {"crash", "interrupted_outside"}

C20_QuarantineContained ==
    [][\A f \in Files :
          (outcome[f] = "none" /\ outcome'[f] \in FailureKinds)
             => /\ status' = "running" /\ pc' = "check" /\ f = i
                /\ data' = mark_failed(data,
                               IF outcome'[f] = "nodata" THEN generate_file_key(f)
                               ELSE relative_path(f),
                               CASE outcome'[f] = "readfail" -> "Could not read file content"
                                 [] outcome'[f] = "nodata" -> "Insert returned no data"
                                 [] OTHER -> "str(e)")
                /\ consecutive_failures' =
                      IF outcome'[f] = "readfail" THEN consecutive_failures
                      ELSE consecutive_failures + 1
                /\ error_dir'.files \subseteq error_dir.files \cup {f}
                /\ error_dir'.log \subseteq error_dir.log \cup {f}]_vars

C20_Witness ==
    /\ status = "exited" /\ ending = "done" /\ run = 1 /\ N = 2
    /\ outcome[0] = "raise" /\ outcome[1] = "nodata"
    /\ error_dir = [files |-> {1}, log |-> {1}]
    /\ DOMAIN data.failed = {relative_path(0), generate_file_key(1)}
    /\ data.stats.errors = 2 /\ consecutive_failures = 2

\* C21: a run moves only along IDLE -> SCANNING -> FETCHING_EXISTING (smart
\* mode only) -> PROCESSING -> FINALIZING -> DONE; INTERRUPTED and
\* HALTED_SYSTEMIC_FAILURE are entered only from PROCESSING and only by a save
\* that persisted the ledger; inserts are issued in PROCESSING only; nothing
\* leaves a terminal state.  Terminations that are not engine states (missing
\* credentials, authentication abort, fatal error, kill) are left aside.
Terminals == {"DONE", "INTERRUPTED", "HALTED_SYSTEMIC_FAILURE", "ABORTED"}

EngineState ==
    CASE status = "idle" -> "IDLE"
      [] status = "exited" ->
            CASE ending = "done" -> "DONE"
              [] ending = "halted" -> "HALTED_SYSTEMIC_FAILURE"
              [] ending \in {"interrupted", "interrupted_outside"} -> "INTERRUPTED"
              [] OTHER -> "ABORTED"
      [] OTHER ->
            CASE pc = "main" -> "IDLE"
              [] pc = "scan" -> "SCANNING"
              [] pc = "fetch" -> "FETCHING_EXISTING"
              [] pc = "resume" -> IF args.force THEN "SCANNING"
                                  ELSE "FETCHING_EXISTING"
              [] pc \in {"save_write", "save_replace"} /\ save_ret = "final"
                    -> "FINALIZING"
              [] OTHER -> "PROCESSING"

EngineSteps ==
    {<<"IDLE", "SCANNING">>, <<"SCANNING", "FETCHING_EXISTING">>,
     <<"SCANNING", "PROCESSING">>, <<"FETCHING_EXISTING", "PROCESSING">>,
     <<"PROCESSING", "FINALIZING">>, <<"FINALIZING", "DONE">>,
     <<"PROCESSING", "INTERRUPTED">>, <<"PROCESSING", "HALTED_SYSTEMIC_FAILURE">>}

MovesAlongStates ==
    (run' = run /\ EngineState' # EngineState /\ EngineState' # "ABORTED")
        => /\ (<<EngineState, EngineState'>> \in EngineSteps
                  \/ EngineState' = "INTERRUPTED")
           /\ EngineState' = "FETCHING_EXISTING" => ~args.force
           /\ (EngineState = "SCANNING" /\ EngineState' = "PROCESSING")
                 => args.force

EntersStopTerminal ==
    /\ run' = run /\ EngineState' # EngineState
    /\ EngineState' \in {"INTERRUPTED", "HALTED_SYSTEMIC_FAILURE"}

InsertsAndTerminals ==
    /\ (\E f \in Files : calls'[f] > calls[f]) => EngineState = "PROCESSING"
    /\ (run' = run /\ EngineState \in Terminals) => EngineState' = EngineState

\* C21: the engine state machine, as one property of every step of a run
C21_EngineStateMachine ==
    [][/\ MovesAlongStates
       /\ EntersStopTerminal
             => /\ EngineState = "PROCESSING"
                /\ saved_ok' /\ load(fs'[cache_file]) = data'
       /\ InsertsAndTerminals]_vars

\* C22 as stated: within one run the files are attempted in ascending index
\* order from the ledger's cursor on, none skipped and each at most once, and
\* the in-memory cursor never decreases and never exceeds the number of
\* candidates.
InLoop ==
    /\ status = "running"
    /\ pc \in {"loop", "file", "insert", "mark", "check", "sleep", "save_write",
               "save_replace"}
    /\ "last_file_index" \notin data.absent

Attempted == {f \in Files : outcome[f] # "none"}

\* the files of the run so far are start_index .. i - 1, and file i once its
\* step has ended; start_index is the cursor of the ledger the run loaded
AscendingFromCursor ==
    InLoop
        => /\ start_index = load(ledger0).last_file_index
           /\ start_index <= i
           /\ \A f \in Files : (start_index <= f /\ f < i) => f \in Attempted
           /\ \A f \in Attempted : start_index <= f /\ f <= i
           /\ \A f \in Files : calls[f] <= 1
           /\ data.last_file_index \in {i, i + 1}

SinglePass ==
    (InLoop /\ InLoop')
        => /\ i' \in {i, i + 1}
           /\ \A f \in Files :
                 /\ f \in Attempted => outcome'[f] = outcome[f]
                 /\ calls'[f] > calls[f] => (f = i /\ f \notin Attempted)
           /\ data'.last_file_index >= data.last_file_index

\* C22 as stated: ordered single pass, with the cursor at most N
C22_OrderedSinglePass ==
    [][/\ AscendingFromCursor'
       /\ SinglePass
       /\ InLoop' => data'.last_file_index <= N]_vars

\* C22 amended: the same, but the cursor is bounded by the number of
\* candidates only when the cursor the run loaded was; a run that loads a
\* cursor above it attempts no file and leaves the cursor where it was.
C22_OrderedSinglePassFromLoadedCursor ==
    [][/\ AscendingFromCursor'
       /\ SinglePass
       /\ InLoop' => IF start_index' <= N
                     THEN data'.last_file_index <= N
                     ELSE /\ data'.last_file_index = start_index'
                          /\ Attempted' = {}]_vars

C22_Witness ==
    /\ status = "exited" /\ ending = "done" /\ N = 2
    /\ start_index = 1 /\ i = 2
    /\ outcome[0] = "none" /\ outcome[1] = "raise"
    /\ calls[0] = 0 /\ calls[1] = 1
    /\ data.last_file_index = 2 /\ is_migrated(data, generate_file_key(0))

\* C23: a run's inserts and its ledger are determined by the ledger it
\* loaded, the candidate list and what each read and each insert returned,
\* and by nothing else: not by --force, not by the result of the listing.  A
\* smart run and a --force run that agree on the former therefore issue the
\* same inserts and hold the same ledger at every point, and the skipped set
\* stays empty.
Scanned(d) ==
    [set_file_list_hash(d, compute_file_list_hash)
        EXCEPT !.total_files = N, !.stats.total_files = N]

\* the ledger after migrate_single_file ended for file f with outcome[f]
Applied(d, f) ==
    CASE outcome[f] = "ok" -> mark_migrated(d, generate_file_key(f))
      [] outcome[f] = "nodata" ->
            mark_failed(d, generate_file_key(f), "Insert returned no data")
      [] outcome[f] = "raise" -> mark_failed(d, relative_path(f), "str(e)")
      [] outcome[f] = "readfail" ->
            mark_failed(d, relative_path(f), "Could not read file content")
      [] OTHER -> d

RECURSIVE Replayed(_, _, _)
Replayed(d, f, upto) ==
    IF f >= upto THEN d
    ELSE Replayed(update_index(Applied(d, f), f + 1), f + 1, upto)

InRun ==
    \/ InLoop
    \/ status = "exited" /\ ending \in {"done", "halted", "interrupted"}

\* the insert calls for file f: one when its step ended with an insert result,
\* none when it ended otherwise; the file whose step has not ended (file i, a
\* confirmed insert not yet marked) has had none or one
InsertsExpected(f) ==
    IF outcome[f] \in {"ok", "nodata", "raise"} THEN {1}
    ELSE IF outcome[f] = "none" /\ f = i THEN {0, 1} ELSE {0}

ErrorsCoverFailed(d) == d.stats.errors >= Cardinality(DOMAIN d.failed)

Loaded == status = "running" /\ pc # "main"

\* C24: the error count is cumulative, within a run and across runs
C24_CumulativeErrors ==
    [][/\ ErrorsCoverFailed(data') /\ ErrorsCoverFailed(persisted')
       /\ ErrorsCoverFailed(load(fs'[cache_file]))
       /\ \A f \in Files :
             (outcome[f] = "none" /\ outcome'[f] \in FailureKinds)
                => data'.stats.errors = data.stats.errors + 1
       /\ (Loaded /\ Loaded')
             => data'.stats.errors >= data.stats.errors
       /\ (Loaded' /\ ~args'.reset)
             => data'.stats.errors >= load(ledger0').stats.errors
       /\ persisted'.stats.errors < persisted.stats.errors
             => (status = "running" /\ pc = "main" /\ args.reset)
       /\ (status' = "exited" /\ ending' = "done" /\ ~args'.reset
              /\ load(ledger0').stats.errors > 0)
             => exit_code' = 1]_vars

C24_Witness ==
    /\ status = "exited" /\ ending = "done" /\ exit_code = 1
    /\ run = 2 /\ ~args.reset
    /\ \A f \in Files : calls[f] = 0 /\ outcome[f] = "none"
    /\ data.stats.errors = 1
    /\ load(ledger0).stats.errors = 1

====
